---- MODULE Spec2Model ----
(***************************************************************************)
(* A model of msvc-env (src/src/lib.rs): locating Visual Studio with       *)
(* vswhere.exe, extracting the developer environment through a cmd         *)
(* subprocess and memoising it per architecture in a process-wide cache.   *)
(*                                                                         *)
(* Threads of one process call the public operations.  Every step that     *)
(* touches shared state (the two mutexes, the cache map, the vswhere.exe   *)
(* file) or an external collaborator (network, locator tool, filesystem,   *)
(* cmd subprocess) is one action.  Text is modelled as sequences of        *)
(* one-character strings.                                                  *)
(*                                                                         *)
(* Around the library: Command::msvc_env, which sets a snapshot on a        *)
(* Command, the command-line program (src/src/main.rs), and the parsing    *)
(* tail of the extraction applied to captured output on its own.           *)
(***************************************************************************)
EXTENDS Integers, Sequences, FiniteSets, TLC

\* ---------------------------------------------------------------- bounds
\* Total number of public calls made by all threads together.
MaxCalls == 2

\* The threads of the process.
Threads == { 1, 2 }
NoThread == 0
\* The thread that runs main, and the only one that builds a Command.
MainThread == 1

\* The longest run of variable lines in a dump handed to the parser alone.
MaxDumpLines == 3

\* ---------------------------------------------------------------- MsvcArch
MsvcArch == {"X86", "X64", "Arm", "Arm64", "All"}
\* Placeholder argument of the operations that take no architecture.
NoArch == "-"

as_str(a) ==
  CASE a = "X86" -> "x86"
    [] a = "X64" -> "x64"
    [] a = "Arm" -> "arm"
    [] a = "Arm64" -> "arm64"
    [] a = "All" -> "all"

bat_filename(a) ==
  CASE a = "X64" -> "vcvars64.bat"
    [] a = "Arm" -> "vcvarsamd64_arm.bat"
    [] a = "Arm64" -> "vcvarsamd64_arm64.bat"
    [] a = "X86" -> "vcvarsamd64_x86.bat"
    [] a = "All" -> "vcvarsall.bat"

\* ---------------------------------------------------------------- text
\* char::is_whitespace on the characters used here.
Whitespace == {" ", "\t", "\r", "\n"}

RECURSIVE TrimStart(_)
TrimStart(s) ==
  IF s # << >> /\ Head(s) \in Whitespace THEN TrimStart(Tail(s)) ELSE s

RECURSIVE TrimEnd(_)
TrimEnd(s) ==
  IF s # << >> /\ s[Len(s)] \in Whitespace
    THEN TrimEnd(SubSeq(s, 1, Len(s) - 1))
    ELSE s

\* str::trim
Trim(s) == TrimEnd(TrimStart(s))

\* Index of the first occurrence of character c in s, 0 when there is none.
RECURSIVE FindFrom(_, _, _)
FindFrom(s, c, i) ==
  IF i > Len(s) THEN 0
  ELSE IF s[i] = c THEN i
  ELSE FindFrom(s, c, i + 1)

Find(s, c) == FindFrom(s, c, 1)

\* One line without its terminator: a trailing "\r" before "\n" is dropped.
StripCr(l) ==
  IF l # << >> /\ l[Len(l)] = "\r" THEN SubSeq(l, 1, Len(l) - 1) ELSE l

\* str::lines: split on "\n"; a final line needs no terminator and an empty
\* remainder after the last "\n" yields no line.
RECURSIVE Lines(_)
Lines(s) ==
  IF s = << >> THEN << >>
  ELSE LET i == Find(s, "\n") IN
    IF i = 0 THEN << s >>
    ELSE << StripCr(SubSeq(s, 1, i - 1)) >> \o Lines(SubSeq(s, i + 1, Len(s)))

\* Iterator::skip(n)
Skip(seq, n) == IF Len(seq) <= n THEN << >> ELSE SubSeq(seq, n + 1, Len(seq))

\* The number of leading output lines vcvars_environment drops.
SkipLines == 6

\* str::split_once('='): << >> for None, otherwise << key, value >>.
SplitOnce(line) ==
  LET i == Find(line, "=") IN
    IF i = 0 THEN << >>
    ELSE << SubSeq(line, 1, i - 1), SubSeq(line, i + 1, Len(line)) >>

\* IndexMap::insert: a new key is appended, an existing key keeps its position
\* and takes the new value.  A map is a sequence of << key, value >> pairs.
IndexMapInsert(m, k, v) ==
  IF \E i \in 1..Len(m) : m[i][1] = k
    THEN [i \in 1..Len(m) |-> IF m[i][1] = k THEN << k, v >> ELSE m[i]]
    ELSE Append(m, << k, v >>)

\* filter_map(split_once).collect::<IndexMap>() over the kept lines.
RECURSIVE CollectFrom(_, _)
CollectFrom(ls, m) ==
  IF ls = << >> THEN m
  ELSE LET kv == SplitOnce(Head(ls)) IN
    CollectFrom(Tail(ls),
      IF Len(kv) = 0 THEN m ELSE IndexMapInsert(m, kv[1], kv[2]))

\* The parsing tail of vcvars_environment.
ParseOutput(stdout) == CollectFrom(Skip(Lines(Trim(stdout)), SkipLines), << >>)

\* ---------------------------------------------------------------- paths
Sep == "\\"
\* PathBuf::join of one component given as text.
Join(p, comp) == p \o << Sep >> \o comp

VC == << "V", "C" >>
AuxBuild == << "A", "u", "x", Sep, "B", "u", "i", "l", "d" >>
VsDevCmdBat == << "C", "o", "m", "m", "o", "n", "7", Sep, "T", "o", "o", "l", "s",
                  Sep, "V", "s", "D", "e", "v", "C", "m", "d", ".", "b", "a", "t" >>

\* ---------------------------------------------------------------- results
\* Result<T, MsvcEnvError>: kind is "Ok" or "Err"; err names the MsvcEnvError
\* variant; arch and file are the payload of ArchNotSupported; val is the Ok
\* value or the String payload of the error.
NoResult == [kind |-> "None", err |-> "", arch |-> "", file |-> "", val |-> << >>]
Ok(v) == [kind |-> "Ok", err |-> "", arch |-> "", file |-> "", val |-> v]
Err(e, text) == [kind |-> "Err", err |-> e, arch |-> "", file |-> "", val |-> text]
ArchNotSupported(a, f) ==
  [kind |-> "Err", err |-> "ArchNotSupported", arch |-> a, file |-> f, val |-> << >>]

\* e.to_string() of an io::Error / ureq::Error, and a subprocess's stderr text.
ErrText == << "e" >>
Stderr == << "s" >>

\* Output::stderr of a finished child: what the child wrote when the stream
\* was piped, nothing when it was left to the parent's stderr.
CapturedStderr(piped) == IF piped THEN Stderr ELSE << >>

\* ---------------------------------------------------------------- host
InstallRoot == << "D", ":", Sep, "V", "S", "\r", "\n" >>

\* A host: the locator's answer and the files below the installation root.
Host(out, dev, dir, scripts) ==
  [locatorOut |-> out, vsdevcmd |-> dev, buildDir |-> dir, bats |-> scripts]

\* No installation (no output, or a blank line), a full installation, one
\* without the ARM and x86 scripts, one without VsDevCmd.bat, one without the
\* VC build directory.
Hosts ==
  { Host(<< >>, FALSE, FALSE, {}),
    Host(<< "\r", "\n" >>, FALSE, FALSE, {}),
    Host(InstallRoot, TRUE, TRUE, MsvcArch),
    Host(InstallRoot, TRUE, TRUE, {"X64", "All"}),
    Host(InstallRoot, FALSE, TRUE, MsvcArch),
    Host(InstallRoot, TRUE, FALSE, {}) }

\* Captured stdout of "cmd /k VsDevCmd.bat ..." fed "set" on stdin: banner,
\* prompt echo, the variables, the final prompt.
Crlf == << "\r", "\n" >>
DumpA ==
  << "*" >> \o Crlf \o << "*", "V" >> \o Crlf \o << "*", "C" >> \o Crlf \o
  << "*" >> \o Crlf \o Crlf \o << ">", "s", "e", "t" >> \o Crlf \o
  << "P", "=", "a" >> \o Crlf \o << "I", "=", "b" >> \o Crlf \o Crlf \o << ">" >>
\* The line VsDevCmd.bat prints when it fails to set the environment up.
SetupErrorLine == << "E", "!" >>
\* The same for a run whose setup script failed: cmd /k goes on to read
\* "set" from stdin and prints the variables as they were inherited.
DumpB ==
  << "*" >> \o Crlf \o << "*", "V" >> \o Crlf \o << "*", "C" >> \o Crlf \o
  << "*" >> \o Crlf \o SetupErrorLine \o Crlf \o << ">", "s", "e", "t" >> \o Crlf \o
  << "P", "=", "c" >> \o Crlf \o << "I", "=", "b" >> \o Crlf \o Crlf \o << ">" >>
\* A successful run that printed fewer lines than are skipped.
DumpShort == << "P", "=", "a" >> \o Crlf \o << "I", "=", "b" >> \o Crlf
\* A successful run that printed nothing.
DumpEmpty == << >>
Dumps == { DumpA, DumpB, DumpShort, DumpEmpty }

\* ---------------------------------------------------------------- state
\* The operations the threads call: the environment API (with the locator
\* operation it is built on), the path API, and the helper download alone.
EnvOps == { "environment", "find_visual_studio" }
DownloadOps == { "download_vswhere" }
PathOps == { "find_visual_studio", "vc_path", "vcvars_path", "list_bat_files",
             "vsdevcmd_path" }
ArchOps == { "environment", "vc_path", "vcvars_path" }

VARIABLES
  host,         \* the machine the process runs on (fixed)
  file,         \* target/msvc-env-cache/vswhere.exe: "nodir", "absent", "partial", "complete"
  cacheLock,    \* holder of the ENV_CACHE mutex, NoThread when free
  vswhereLock,  \* holder of the VSWHERE_LOCK mutex, NoThread when free
  cache,        \* ENV_CACHE: per architecture << >> (no entry) or << map >>
  pc,           \* per thread: the step it is about to take
  op,           \* per thread: the public operation it is running
  arch,         \* per thread: the architecture argument
  vs_path,      \* per thread: find_visual_studio's result
  new_env,      \* per thread: vcvars_environment's result
  result,       \* per thread: what the finished call returned
  did,          \* per thread: the external steps the current call has performed
  overlap,      \* per thread: another environment call for the same arch was in flight at call time
  cacheSeen,    \* the cache as it was when the current lock holder acquired the lock
  spawned,      \* per architecture: cmd subprocesses spawned for it
  failedRuns,   \* architectures whose spawned cmd subprocess ended in an error return
  returned,     \* per architecture: the snapshots environment calls returned
  ncalls,       \* public calls made so far
  command,      \* the Command the main thread builds: its explicit environment
  argv,         \* env::args() of the command-line program
  exit_code,    \* exit status of the command-line program, NoExit while it runs
  output,       \* captured stdout handed to the parsing tail of vcvars_environment
  parsed,       \* what the parsing tail made of output
  peer          \* another process sharing the cache directory: its step in download_vswhere

shared == << host, file, cacheLock, vswhereLock, cache, cacheSeen >>
locals == << pc, op, arch, vs_path, new_env, result, did, overlap >>
history == << spawned, failedRuns, returned, ncalls >>
\* The callers around the library, which no library step touches.
callers == << command, argv, exit_code, output, parsed, peer >>
vars == << shared, locals, history, callers >>

\* HashMap::new()
EmptyCache == [a \in MsvcArch |-> << >>]
\* A lookup that never finds the entry.
CacheGetMiss(c, a) == << >>
\* HashMap::get: << >> for None, << map >> for Some.
CacheGet(c, a) == c[a]
\* An insert that replaces the whole map by the new entry.
CacheInsertClear(c, a, env) == [x \in MsvcArch |-> IF x = a THEN << env >> ELSE << >>]
\* HashMap::insert
CacheInsert(c, a, env) == [c EXCEPT ![a] = << env >>]
\* MsvcEnvironment::clone (derived): a copy with the same entries in the same order.
Clone(env) == [i \in 1..Len(env) |-> << env[i][1], env[i][2] >>]
\* An existence test that never sees the file.
ExistsNever(f) == FALSE
\* Path::exists on vswhere.exe: a created file exists whatever was written to it.
Exists(f) == f \in { "partial", "complete" }
\* A guard that is leaked instead of dropped.
ReleaseLeak(lock, t) == lock
\* Dropping a MutexGuard at function exit.
Release(lock, t) == IF lock = t THEN NoThread ELSE lock

InitProcess ==
  /\ host \in Hosts
  /\ file \in { "nodir", "complete" }
  /\ cacheLock = NoThread
  /\ vswhereLock = NoThread
  /\ cache = EmptyCache
  /\ cacheSeen = EmptyCache
  /\ pc = [t \in Threads |-> "idle"]
  /\ op = [t \in Threads |-> "environment"]
  /\ arch = [t \in Threads |-> NoArch]
  /\ vs_path = [t \in Threads |-> << >>]
  /\ new_env = [t \in Threads |-> << >>]
  /\ result = [t \in Threads |-> NoResult]
  /\ did = [t \in Threads |-> {}]
  /\ overlap = [t \in Threads |-> FALSE]
  /\ spawned = [a \in MsvcArch |-> 0]
  /\ failedRuns = {}
  /\ returned = [a \in MsvcArch |-> {}]
  /\ ncalls = 0

\* Command::new: no explicit variable, the parent's environment inherited.
NewCommand == [clear |-> FALSE, vars |-> {}]
\* The program name alone.
NoArgs == << << "m" >> >>
\* The process has not exited.
NoExit == -1
\* Nothing parsed yet.
NotParsed == [done |-> FALSE, vars |-> << >>]

\* A library user's process: no Command, no command line, no parser harness.
InitCallers ==
  /\ command = NewCommand
  /\ argv = NoArgs
  /\ exit_code = NoExit
  /\ output = << >>
  /\ parsed = NotParsed
  /\ peer = "idle"

Init == InitProcess /\ InitCallers

\* ---------------------------------------------------------------- steps
\* A thread moves on inside its call.
Goto(t, p) == pc' = [pc EXCEPT ![t] = p]

\* The external steps of the current call, for the record: "exists" (the
\* helper file was looked for), "network" (a fetch was made), "locator" (the
\* locator tool was started), "locator_ok" (it exited successfully), "fs" (a
\* file below the installation root was looked for), "cmd" (the shell
\* subprocess was spawned).
Did(t, step) == did' = [did EXCEPT ![t] = @ \cup { step }]

\* The call of thread t returns res: every guard it holds is dropped.
Finish(t, res) ==
  /\ pc' = [pc EXCEPT ![t] = "done"]
  /\ result' = [result EXCEPT ![t] = res]
  /\ cacheLock' = Release(cacheLock, t)
  /\ vswhereLock' = Release(vswhereLock, t)
  /\ cacheSeen' = IF cacheLock = t THEN EmptyCache ELSE cacheSeen
  /\ returned' = IF op[t] = "environment" /\ res.kind = "Ok"
                  THEN [returned EXCEPT ![arch[t]] = @ \cup { res.val }]
                  ELSE returned
  /\ failedRuns' = IF res.kind = "Err" /\ "cmd" \in did[t]
                    THEN failedRuns \cup { arch[t] }
                    ELSE failedRuns

\* What Finish leaves to the action using it.
FinishFrame == << host, op, arch, ncalls, callers >>
\* What Goto leaves to the action using it.
GotoFrame ==
  << host, op, arch, ncalls, result, returned, failedRuns, callers >>

\* Where a public operation starts: all but environment begin by calling
\* find_visual_studio, whose first statement is download_vswhere.
Entry(o) == IF o = "environment" THEN "environment_lock" ELSE "download_vswhere_lock"

\* A thread calls one of the operations in ops.
Call(t, ops) ==
  /\ pc[t] = "idle"
  /\ ncalls < MaxCalls
  /\ \E o \in ops :
       \E a \in (IF o \in ArchOps THEN MsvcArch ELSE { NoArch }) :
         /\ op' = [op EXCEPT ![t] = o]
         /\ arch' = [arch EXCEPT ![t] = a]
         /\ pc' = [pc EXCEPT ![t] = Entry(o)]
         /\ overlap' = [overlap EXCEPT ![t] =
              /\ o = "environment"
              /\ \E u \in Threads \ { t } :
                   /\ op[u] = "environment" /\ arch[u] = a
                   /\ pc[u] \notin { "idle", "done" }]
  /\ ncalls' = ncalls + 1
  /\ UNCHANGED << shared, vs_path, new_env, result, did,
                  spawned, failedRuns, returned, callers >>

\* The caller takes the returned value and drops it.
Return(t) ==
  /\ pc[t] = "done"
  /\ pc' = [pc EXCEPT ![t] = "idle"]
  /\ result' = [result EXCEPT ![t] = NoResult]
  /\ vs_path' = [vs_path EXCEPT ![t] = << >>]
  /\ new_env' = [new_env EXCEPT ![t] = << >>]
  /\ did' = [did EXCEPT ![t] = {}]
  /\ overlap' = [overlap EXCEPT ![t] = FALSE]
  /\ op' = [op EXCEPT ![t] = "environment"]
  /\ arch' = [arch EXCEPT ![t] = NoArch]
  /\ UNCHANGED << shared, history, callers >>

\* ---- environment (lib.rs 235-254)
\* A cache lock that does not exclude other holders.
environment_lock_shared(t) ==
  /\ pc[t] = "environment_lock"
  /\ cacheLock' = t
  /\ cacheSeen' = cache
  /\ Goto(t, "environment_get")
  /\ UNCHANGED << GotoFrame, file, vswhereLock, cache, vs_path, new_env, did,
                  overlap, spawned >>

environment_lock(t) ==
  /\ pc[t] = "environment_lock"
  /\ cacheLock = NoThread
  /\ cacheLock' = t
  /\ cacheSeen' = cache
  /\ Goto(t, "environment_get")
  /\ UNCHANGED << GotoFrame, file, vswhereLock, cache, vs_path, new_env, did,
                  overlap, spawned >>

\* A miss that stores an empty placeholder before extracting.
environment_get_placeholder(t) ==
  /\ pc[t] = "environment_get"
  /\ LET hit == CacheGet(cache, arch[t]) IN
       IF Len(hit) > 0
         THEN /\ Finish(t, Ok(Clone(hit[1])))
              /\ UNCHANGED << FinishFrame, file, cache, vs_path, new_env, did,
                              overlap, spawned >>
         ELSE /\ Goto(t, "download_vswhere_lock")
              /\ cache' = CacheInsert(cache, arch[t], << >>)
              /\ UNCHANGED << GotoFrame, file, cacheLock, vswhereLock,
                              cacheSeen, vs_path, new_env, did, overlap, spawned >>

\* A miss that drops the cache guard before extracting.
environment_get_unlock(t) ==
  /\ pc[t] = "environment_get"
  /\ LET hit == CacheGet(cache, arch[t]) IN
       IF Len(hit) > 0
         THEN /\ Finish(t, Ok(Clone(hit[1])))
              /\ UNCHANGED << FinishFrame, file, cache, vs_path, new_env, did,
                              overlap, spawned >>
         ELSE /\ Goto(t, "download_vswhere_lock")
              /\ cacheLock' = NoThread
              /\ UNCHANGED << GotoFrame, file, vswhereLock, cache,
                              cacheSeen, vs_path, new_env, did, overlap, spawned >>

\* A lookup step that extracts afresh whatever the cache holds.
environment_get_stale(t) ==
  /\ pc[t] = "environment_get"
  /\ Goto(t, "download_vswhere_lock")
  /\ UNCHANGED << GotoFrame, file, cacheLock, vswhereLock, cache,
                  cacheSeen, vs_path, new_env, did, overlap, spawned >>

environment_get(t) ==
  /\ pc[t] = "environment_get"
  /\ LET hit == CacheGet(cache, arch[t]) IN
       IF Len(hit) > 0
         THEN /\ Finish(t, Ok(Clone(hit[1])))
              /\ UNCHANGED << FinishFrame, file, cache, vs_path, new_env, did,
                              overlap, spawned >>
         ELSE /\ Goto(t, "download_vswhere_lock")
              /\ UNCHANGED << GotoFrame, file, cacheLock, vswhereLock, cache,
                              cacheSeen, vs_path, new_env, did, overlap, spawned >>

environment_insert(t) ==
  /\ pc[t] = "environment_insert"
  /\ cache' = CacheInsert(cache, arch[t], Clone(new_env[t]))
  /\ Finish(t, Ok(new_env[t]))
  /\ UNCHANGED << FinishFrame, file, vs_path, new_env, did, overlap, spawned >>

\* ---- download_vswhere (lib.rs 119-143)
\* No statement between lock() and the end of download_vswhere can panic, so
\* the mutex is never poisoned and lock() only ever blocks.
\* A download lock that does not exclude other holders.
download_vswhere_lock_shared(t) ==
  /\ pc[t] = "download_vswhere_lock"
  /\ vswhereLock' = t
  /\ Goto(t, "download_vswhere_mkdir")
  /\ UNCHANGED << GotoFrame, file, cacheLock, cache, cacheSeen, vs_path,
                  new_env, did, overlap, spawned >>

download_vswhere_lock(t) ==
  /\ pc[t] = "download_vswhere_lock"
  /\ vswhereLock = NoThread
  /\ vswhereLock' = t
  /\ Goto(t, "download_vswhere_mkdir")
  /\ UNCHANGED << GotoFrame, file, cacheLock, cache, cacheSeen, vs_path,
                  new_env, did, overlap, spawned >>

\* fs::create_dir_all: succeeds on an existing directory, may fail to make one.
download_vswhere_mkdir(t) ==
  /\ pc[t] = "download_vswhere_mkdir"
  /\ \E ok \in (IF file = "nodir" THEN BOOLEAN ELSE { TRUE }) :
       IF ok
         THEN /\ file' = IF file = "nodir" THEN "absent" ELSE file
              /\ Goto(t, "download_vswhere_exists")
              /\ UNCHANGED << GotoFrame, cacheLock, vswhereLock, cache, cacheSeen,
                              vs_path, new_env, did, overlap, spawned >>
         ELSE /\ Finish(t, Err("IoError", ErrText))
              /\ UNCHANGED << FinishFrame, file, cache, vs_path, new_env, did,
                              overlap, spawned >>

\* A return from download_vswhere that keeps the guard alive in the caller.
DownloadDoneKeep(t) ==
  IF op[t] = "download_vswhere"
    THEN /\ Finish(t, Ok(<< >>))
         /\ UNCHANGED << FinishFrame, cache, vs_path, new_env, overlap, spawned >>
    ELSE /\ Goto(t, "find_visual_studio_run")
         /\ UNCHANGED << GotoFrame, cacheLock, vswhereLock, cache, cacheSeen,
                         vs_path, new_env, overlap, spawned >>

\* download_vswhere returns Ok(()): its guard is dropped and the caller goes on.
DownloadDone(t) ==
  IF op[t] = "download_vswhere"
    THEN /\ Finish(t, Ok(<< >>))
         /\ UNCHANGED << FinishFrame, cache, vs_path, new_env, overlap, spawned >>
    ELSE /\ Goto(t, "find_visual_studio_run")
         /\ vswhereLock' = Release(vswhereLock, t)
         /\ UNCHANGED << GotoFrame, cacheLock, cache, cacheSeen, vs_path, new_env,
                         overlap, spawned >>

download_vswhere_exists(t) ==
  /\ pc[t] = "download_vswhere_exists"
  /\ Did(t, "exists")
  /\ IF Exists(file)
       THEN /\ DownloadDone(t)
            /\ UNCHANGED file
       ELSE /\ Goto(t, "download_vswhere_get")
            /\ UNCHANGED << GotoFrame, file, cacheLock, vswhereLock, cache, cacheSeen,
                            vs_path, new_env, overlap, spawned >>

\* ureq::get(VSWHERE_URL).call(): a transport error or a non-success status is Err.
download_vswhere_get(t) ==
  /\ pc[t] = "download_vswhere_get"
  /\ Did(t, "network")
  /\ \E ok \in BOOLEAN :
       IF ok
         THEN /\ Goto(t, "download_vswhere_create")
              /\ UNCHANGED << GotoFrame, file, cacheLock, vswhereLock, cache, cacheSeen,
                              vs_path, new_env, overlap, spawned >>
         ELSE /\ Finish(t, Err("DownloadError", ErrText))
              /\ UNCHANGED << FinishFrame, file, cache, vs_path, new_env, overlap,
                              spawned >>

\* fs::File::create: the file then exists, empty.
download_vswhere_create(t) ==
  /\ pc[t] = "download_vswhere_create"
  /\ \E ok \in BOOLEAN :
       IF ok
         THEN /\ file' = "partial"
              /\ Goto(t, "download_vswhere_copy")
              /\ UNCHANGED << GotoFrame, cacheLock, vswhereLock, cache, cacheSeen,
                              vs_path, new_env, did, overlap, spawned >>
         ELSE /\ Finish(t, Err("IoError", ErrText))
              /\ UNCHANGED << FinishFrame, file, cache, vs_path, new_env, did,
                              overlap, spawned >>

\* io::copy of the body into the file: an error leaves what was written so far.
download_vswhere_copy(t) ==
  /\ pc[t] = "download_vswhere_copy"
  /\ \E ok \in BOOLEAN :
       IF ok
         THEN /\ file' = "complete"
              /\ DownloadDone(t)
              /\ UNCHANGED did
         ELSE /\ Finish(t, Err("IoError", ErrText))
              /\ UNCHANGED << FinishFrame, file, cache, vs_path, new_env, did,
                              overlap, spawned >>

\* ---- find_visual_studio (lib.rs 145-169)
\* How running vswhere.exe can end: a file that is not the whole executable
\* does not run to a successful exit.
LocatorOutcomes(f) ==
  IF f = "complete" THEN { "spawn_error", "nonzero", "success" }
  ELSE { "spawn_error", "nonzero" }

\* The step after find_visual_studio returned Ok, by caller.
AfterFind(o) ==
  CASE o = "find_visual_studio" -> "done"
    [] o \in { "vc_path", "vcvars_path" } -> "vc_path_check"
    [] o = "list_bat_files" -> "list_bat_files_check"
    [] o \in { "vsdevcmd_path", "environment" } -> "vsdevcmd_path_check"

\* A classification that tests the raw output for emptiness, untrimmed.
FindResultNoTrim(outcome, stdout) ==
  IF outcome = "nonzero" THEN Err("VswhereError", CapturedStderr(TRUE))
  ELSE IF stdout = << >> THEN Err("NoVisualStudio", << >>)
  ELSE Ok(stdout)

\* Lines 155-168: the classification of a finished locator run.
FindResult(outcome, stdout) ==
  IF outcome = "nonzero" THEN Err("VswhereError", CapturedStderr(TRUE))
  ELSE IF Trim(stdout) = << >> THEN Err("NoVisualStudio", << >>)
  ELSE Ok(Trim(stdout))

find_visual_studio_run(t) ==
  /\ pc[t] = "find_visual_studio_run"
  /\ \E outcome \in LocatorOutcomes(file) :
       LET r == IF outcome = "spawn_error" THEN Err("VswhereError", ErrText)
                ELSE FindResult(outcome, host.locatorOut) IN
         /\ did' = [did EXCEPT ![t] = @ \cup { "locator" } \cup
                      (IF outcome = "success" THEN { "locator_ok" } ELSE {})]
         /\ IF r.kind = "Ok" /\ op[t] # "find_visual_studio"
           THEN /\ vs_path' = [vs_path EXCEPT ![t] = r.val]
                /\ Goto(t, AfterFind(op[t]))
                /\ UNCHANGED << GotoFrame, file, cacheLock, vswhereLock, cache,
                                cacheSeen, new_env, overlap, spawned >>
           ELSE /\ Finish(t, r)
                /\ UNCHANGED << FinishFrame, file, cache, vs_path, new_env, overlap,
                                spawned >>

\* ---- vsdevcmd_path (lib.rs 301-311)
vsdevcmd_path_check(t) ==
  /\ pc[t] = "vsdevcmd_path_check"
  /\ Did(t, "fs")
  /\ IF ~host.vsdevcmd
       THEN /\ Finish(t, Err("NoVisualStudio", << >>))
            /\ UNCHANGED << FinishFrame, file, cache, vs_path, new_env, overlap,
                            spawned >>
       ELSE IF op[t] = "vsdevcmd_path"
         THEN /\ Finish(t, Ok(Join(vs_path[t], VsDevCmdBat)))
              /\ UNCHANGED << FinishFrame, file, cache, vs_path, new_env, overlap,
                              spawned >>
         ELSE /\ Goto(t, "vcvars_environment_spawn")
              /\ UNCHANGED << GotoFrame, file, cacheLock, vswhereLock, cache,
                              cacheSeen, vs_path, new_env, overlap, spawned >>

\* ---- vc_path (lib.rs 171-195)
vc_path_check(t) ==
  /\ pc[t] = "vc_path_check"
  /\ Did(t, "fs")
  /\ IF arch[t] \notin host.bats
       THEN /\ Finish(t, ArchNotSupported(arch[t], bat_filename(arch[t])))
            /\ UNCHANGED << FinishFrame, file, cache, vs_path, new_env, overlap,
                            spawned >>
       ELSE IF op[t] = "vc_path"
         THEN /\ Finish(t, Ok(Join(vs_path[t], VC)))
              /\ UNCHANGED << FinishFrame, file, cache, vs_path, new_env, overlap,
                              spawned >>
         ELSE /\ Goto(t, "vcvars_path_check")
              /\ UNCHANGED << GotoFrame, file, cacheLock, vswhereLock, cache,
                              cacheSeen, vs_path, new_env, overlap, spawned >>

\* ---- vcvars_path (lib.rs 197-210)
vcvars_path_check(t) ==
  /\ pc[t] = "vcvars_path_check"
  /\ Did(t, "fs")
  /\ Finish(t, IF arch[t] \notin host.bats
                 THEN Err("NoVisualStudio", << >>)
                 ELSE Ok(Join(Join(Join(vs_path[t], VC), AuxBuild), << bat_filename(arch[t]) >>)))
  /\ UNCHANGED << FinishFrame, file, cache, vs_path, new_env, overlap, spawned >>

\* ---- list_bat_files (lib.rs 213-231)
ArchOrder == << "X86", "X64", "Arm", "Arm64", "All" >>
\* The .bat entries of the build directory, as file names.
RECURSIVE BatFiles(_, _)
BatFiles(present, i) ==
  IF i > Len(ArchOrder) THEN << >>
  ELSE (IF ArchOrder[i] \in present THEN << bat_filename(ArchOrder[i]) >> ELSE << >>)
       \o BatFiles(present, i + 1)

list_bat_files_check(t) ==
  /\ pc[t] = "list_bat_files_check"
  /\ Did(t, "fs")
  /\ \E ok \in (IF host.buildDir THEN BOOLEAN ELSE { TRUE }) :
       Finish(t, IF ~host.buildDir THEN Err("NoVisualStudio", << >>)
                 ELSE IF ~ok THEN Err("IoError", ErrText)
                 ELSE Ok(BatFiles(host.bats, 1)))
  /\ UNCHANGED << FinishFrame, file, cache, vs_path, new_env, overlap, spawned >>

\* ---- vcvars_environment (lib.rs 257-299)
vcvars_environment_spawn(t) ==
  /\ pc[t] = "vcvars_environment_spawn"
  /\ \E ok \in BOOLEAN :
       IF ok
         THEN /\ spawned' = [spawned EXCEPT ![arch[t]] = @ + 1]
              /\ Did(t, "cmd")
              /\ Goto(t, "vcvars_environment_stdin")
              /\ UNCHANGED << GotoFrame, file, cacheLock, vswhereLock, cache,
                              cacheSeen, vs_path, new_env, overlap >>
         ELSE /\ Finish(t, Err("VcvarsError", ErrText))
              /\ UNCHANGED << FinishFrame, file, cache, vs_path, new_env, did,
                              overlap, spawned >>

\* write_all(b"set\n") and flush on the child's stdin.
vcvars_environment_stdin(t) ==
  /\ pc[t] = "vcvars_environment_stdin"
  /\ \E ok \in BOOLEAN :
       IF ok
         THEN /\ Goto(t, "vcvars_environment_wait")
              /\ UNCHANGED << GotoFrame, file, cacheLock, vswhereLock, cache,
                              cacheSeen, vs_path, new_env, did, overlap, spawned >>
         ELSE /\ Finish(t, Err("IoError", ErrText))
              /\ UNCHANGED << FinishFrame, file, cache, vs_path, new_env, did,
                              overlap, spawned >>

\* wait_with_output, the exit status test and the parsing of stdout.  The
\* child is spawned with stdin and stdout piped and stderr left alone, so
\* what it writes to stderr ("exit_nonzero": it exited with a non-success
\* status, having written Stderr) is not in the captured output.
vcvars_environment_wait(t) ==
  /\ pc[t] = "vcvars_environment_wait"
  /\ \/ /\ Finish(t, Err("VcvarsError", ErrText))
        /\ UNCHANGED << FinishFrame, file, cache, vs_path, new_env, did,
                        overlap, spawned >>
     \/ /\ Did(t, "exit_nonzero")
        /\ Finish(t, Err("VcvarsError", CapturedStderr(FALSE)))
        /\ UNCHANGED << FinishFrame, file, cache, vs_path, new_env,
                        overlap, spawned >>
     \/ \E stdout \in Dumps :
          /\ new_env' = [new_env EXCEPT ![t] = ParseOutput(stdout)]
          /\ Goto(t, "environment_insert")
          /\ UNCHANGED << GotoFrame, file, cacheLock, vswhereLock, cache,
                          cacheSeen, vs_path, did, overlap, spawned >>

\* ---- a caller changes the snapshot it was handed
MutateSnapshot(t) ==
  /\ pc[t] = "done"
  /\ op[t] = "environment"
  /\ result[t].kind = "Ok"
  /\ LET changed == IndexMapInsert(result[t].val, << "P" >>, << "!" >>) IN
       /\ changed # result[t].val
       /\ result' = [result EXCEPT ![t].val = changed]
  /\ UNCHANGED << shared, pc, op, arch, vs_path, new_env, did, overlap, history,
                  callers >>

\* The environment API.
Next ==
  \E t \in Threads :
    \/ Call(t, EnvOps)
    \/ Return(t)
    \/ environment_lock(t)
    \/ environment_get(t)
    \/ environment_insert(t)
    \/ download_vswhere_lock(t)
    \/ download_vswhere_mkdir(t)
    \/ download_vswhere_exists(t)
    \/ download_vswhere_get(t)
    \/ download_vswhere_create(t)
    \/ download_vswhere_copy(t)
    \/ find_visual_studio_run(t)
    \/ vsdevcmd_path_check(t)
    \/ vcvars_environment_spawn(t)
    \/ vcvars_environment_stdin(t)
    \/ vcvars_environment_wait(t)
    \/ MutateSnapshot(t)

Spec == Init /\ [][Next]_vars

\* The path API.
NextPaths ==
  \E t \in Threads :
    \/ Call(t, PathOps)
    \/ Return(t)
    \/ download_vswhere_lock(t)
    \/ download_vswhere_mkdir(t)
    \/ download_vswhere_exists(t)
    \/ download_vswhere_get(t)
    \/ download_vswhere_create(t)
    \/ download_vswhere_copy(t)
    \/ find_visual_studio_run(t)
    \/ vsdevcmd_path_check(t)
    \/ vc_path_check(t)
    \/ vcvars_path_check(t)
    \/ list_bat_files_check(t)

SpecPaths == Init /\ [][NextPaths]_vars

\* The helper download, called directly as its unit test does.
NextDownload ==
  \E t \in Threads :
    \/ Call(t, DownloadOps)
    \/ Return(t)
    \/ download_vswhere_lock(t)
    \/ download_vswhere_mkdir(t)
    \/ download_vswhere_exists(t)
    \/ download_vswhere_get(t)
    \/ download_vswhere_create(t)
    \/ download_vswhere_copy(t)

SpecDownload == Init /\ [][NextDownload]_vars

\* ---------------------------------------------------------------- parsing alone
\* The parsing tail of vcvars_environment (lib.rs 285-298) applied to
\* captured output of every shape: variable lines, lines that repeat a name,
\* a value holding "=", a line without "=", with or without the six lines cmd
\* prints before the variables.
VarLines ==
  { << "A", "=", "1" >>, << "B", "=", "2" >>, << "A", "=", "3" >>,
    << "P", "=", "$", "=", "x" >>, << "X" >> }

\* What cmd /k prints before the variables: the banner of VsDevCmd.bat, a
\* blank line and the prompt echoing "set".
Banner ==
  << << "*" >>, << "*", "V" >>, << "*", "C" >>, << "*" >>, << >>,
     << ">", "s", "e", "t" >> >>

SeqsUpTo(S, n) == UNION { [1..k -> S] : k \in 0..n }

\* The lines as cmd writes them, each ended by "\r\n".
RECURSIVE JoinLines(_)
JoinLines(ls) ==
  IF ls = << >> THEN << >> ELSE Head(ls) \o Crlf \o JoinLines(Tail(ls))

ParseInputs ==
  { JoinLines(pre \o body) :
      pre \in { << >>, Banner }, body \in SeqsUpTo(VarLines, MaxDumpLines) }

InitParse ==
  /\ InitProcess
  /\ command = NewCommand
  /\ argv = NoArgs
  /\ exit_code = NoExit
  /\ output \in ParseInputs
  /\ parsed = NotParsed
  /\ peer = "idle"

\* Lines 285-296 on the captured stdout.
parse_output ==
  /\ ~parsed.done
  /\ parsed' = [done |-> TRUE, vars |-> ParseOutput(output)]
  /\ UNCHANGED << shared, locals, history, command, argv, exit_code, output, peer >>

NextParse == parse_output

SpecParse == InitParse /\ [][NextParse]_vars

\* ---------------------------------------------------------------- Command::msvc_env
\* The environment of the process that builds the Command.
Inherited == { << << "H" >>, << "h" >> >>, << << "P" >>, << "i" >> >> }

\* Command::env: the explicit variable k is set to v.
CommandEnvInsert(c, k, v) ==
  [c EXCEPT !.vars = { p \in @ : p[1] # k } \cup { << k, v >> }]

RECURSIVE EnvsEach(_, _)
EnvsEach(c, m) ==
  IF m = << >> THEN c
  ELSE EnvsEach(CommandEnvInsert(c, Head(m)[1], Head(m)[2]), Tail(m))

\* A merge that clears the command's environment before setting the pairs.
envs_clear(c, m) == EnvsEach([clear |-> TRUE, vars |-> {}], m)
\* Command::envs over the snapshot's pairs, in their order.
envs(c, m) == EnvsEach(c, m)

\* The environment a child spawned from the command starts with.
ChildEnv(c) ==
  LET base == IF c.clear THEN {} ELSE Inherited IN
    { p \in base : \A q \in c.vars : q[1] # p[1] } \cup c.vars

\* A Command with two variables set by the caller, one of them (P) also a
\* variable of the snapshots.
SomeCommand ==
  [clear |-> FALSE,
   vars |-> { << << "U" >>, << "u" >> >>, << << "P" >>, << "o" >> >> }]

InitCommand ==
  /\ InitProcess
  /\ command \in { NewCommand, SomeCommand }
  /\ argv = NoArgs
  /\ exit_code = NoExit
  /\ output = << >>
  /\ parsed = NotParsed
  /\ peer = "idle"

\* msvc_env (lib.rs 22-29) begins by calling environment(arch).
MsvcEnvOps == { "environment" }

\* Lines 25-27 once environment(arch) has returned: "?" hands an error on,
\* otherwise the pairs are set on the command and Ok(self) is returned.
msvc_env_envs(t) ==
  /\ pc[t] = "done"
  /\ op[t] = "environment"
  /\ op' = [op EXCEPT ![t] = "msvc_env"]
  /\ IF result[t].kind = "Ok"
       THEN /\ command' = envs(command, result[t].val)
            /\ result' = [result EXCEPT ![t] = Ok(<< >>)]
       ELSE UNCHANGED << command, result >>
  /\ UNCHANGED << shared, pc, arch, vs_path, new_env, did, overlap, history,
                  argv, exit_code, output, parsed, peer >>

\* One thread configures a Command, possibly twice.
NextCommand ==
  \E t \in { MainThread } :
    \/ Call(t, MsvcEnvOps)
    \/ msvc_env_envs(t)
    \/ (op[t] = "msvc_env" /\ Return(t))
    \/ environment_lock(t)
    \/ environment_get(t)
    \/ environment_insert(t)
    \/ download_vswhere_lock(t)
    \/ download_vswhere_mkdir(t)
    \/ download_vswhere_exists(t)
    \/ download_vswhere_get(t)
    \/ download_vswhere_create(t)
    \/ download_vswhere_copy(t)
    \/ find_visual_studio_run(t)
    \/ vsdevcmd_path_check(t)
    \/ vcvars_environment_spawn(t)
    \/ vcvars_environment_stdin(t)
    \/ vcvars_environment_wait(t)

SpecCommand == InitCommand /\ [][NextCommand]_vars

\* ---------------------------------------------------------------- main (main.rs 32-89)
\* Exit statuses: the end of main, process::exit(1), a panic of unwrap.
SuccessExit == 0
UsageExit == 1
PanicExit == 101

\* str::starts_with("-")
starts_with_dash(tok) == tok # << >> /\ tok[1] = "-"

\* args.iter().filter(not a flag).next(): << >> for None, << token >> for Some.
RECURSIVE FirstNonFlag(_)
FirstNonFlag(args) ==
  IF args = << >> THEN << >>
  ELSE IF ~starts_with_dash(Head(args)) THEN << Head(args) >>
  ELSE FirstNonFlag(Tail(args))

\* Lines 41-45: the first argument after the program name that is no flag.
ArchArg(args) == FirstNonFlag(Skip(args, 1))

\* char::to_lowercase on the characters used here.
LowerChar(c) ==
  CASE c = "X" -> "x"
    [] c = "A" -> "a"
    [] c = "R" -> "r"
    [] c = "M" -> "m"
    [] c = "L" -> "l"
    [] c = "D" -> "d"
    [] OTHER -> c

\* A conversion that leaves the case as it is.
to_lowercase_asis(s) == s
\* str::to_lowercase
to_lowercase(s) == [i \in 1..Len(s) |-> LowerChar(s[i])]

\* Lines 49-63: the match on the lower-cased argument; NoArch is the "_" arm.
ParseArch(tok) ==
  LET s == to_lowercase(tok) IN
    CASE s = << "x", "6", "4" >> -> "X64"
      [] s = << "x", "8", "6" >> -> "X86"
      [] s = << "a", "r", "m" >> -> "Arm"
      [] s = << "a", "r", "m", "6", "4" >> -> "Arm64"
      [] s = << "a", "l", "l" >> -> "All"
      [] OTHER -> NoArch

\* Command-line tokens: the five names in several spellings and tokens that
\* name no architecture.
GoodTokens ==
  { << "x", "6", "4" >>, << "X", "6", "4" >>, << "x", "8", "6" >>, << "X", "8", "6" >>,
    << "a", "r", "m" >>, << "A", "r", "m" >>, << "a", "r", "m", "6", "4" >>,
    << "A", "R", "M", "6", "4" >>, << "a", "l", "l" >>, << "a", "L", "L" >> }
BadTokens ==
  { << >>, << "x", "6" >>, << "a", "m", "d", "6", "4" >>, << "A", "M", "D", "6", "4" >>,
    << "x", "6", "4", " " >>, << "a", "r", "m", "6", "4", "e", "c" >> }
ShFlag == << "-", "-", "s", "h" >>
VFlag == << "-", "v" >>

\* The program name, then nothing, a flag, a token, or a flag and a token.
CliArgvs ==
  { NoArgs, NoArgs \o << ShFlag >> }
  \cup { NoArgs \o << tok >> : tok \in GoodTokens \cup BadTokens }
  \cup { NoArgs \o << VFlag, tok >> : tok \in GoodTokens \cup BadTokens }

InitCli ==
  /\ InitProcess
  /\ command = NewCommand
  /\ argv \in CliArgvs
  /\ exit_code = NoExit
  /\ output = << >>
  /\ parsed = NotParsed
  /\ peer = "idle"

\* Lines 35-67: the architecture is taken from the arguments (X64 when there
\* is none); a token that names none ends the process with status 1,
\* otherwise environment(arch) is called.
main_args(t) ==
  /\ t = MainThread
  /\ pc[t] = "idle"
  /\ ncalls = 0
  /\ exit_code = NoExit
  /\ LET a == ArchArg(argv)
         chosen == IF Len(a) = 0 THEN "X64" ELSE ParseArch(a[1]) IN
       IF chosen = NoArch
         THEN /\ exit_code' = UsageExit
              /\ UNCHANGED << shared, locals, history, command, argv, output, parsed, peer >>
         ELSE /\ op' = [op EXCEPT ![t] = "environment"]
              /\ arch' = [arch EXCEPT ![t] = chosen]
              /\ pc' = [pc EXCEPT ![t] = Entry("environment")]
              /\ ncalls' = ncalls + 1
              /\ UNCHANGED << shared, vs_path, new_env, result, did, overlap,
                              spawned, failedRuns, returned, callers >>

\* Lines 67-88: unwrap panics on an error; otherwise the variables are
\* printed and main returns.
main_exit(t) ==
  /\ t = MainThread
  /\ pc[t] = "done"
  /\ exit_code = NoExit
  /\ exit_code' = IF result[t].kind = "Ok" THEN SuccessExit ELSE PanicExit
  /\ UNCHANGED << shared, locals, history, command, argv, output, parsed, peer >>

\* The command-line program: one thread, one call.
NextCli ==
  \E t \in { MainThread } :
    \/ main_args(t)
    \/ main_exit(t)
    \/ environment_lock(t)
    \/ environment_get(t)
    \/ environment_insert(t)
    \/ download_vswhere_lock(t)
    \/ download_vswhere_mkdir(t)
    \/ download_vswhere_exists(t)
    \/ download_vswhere_get(t)
    \/ download_vswhere_create(t)
    \/ download_vswhere_copy(t)
    \/ find_visual_studio_run(t)
    \/ vsdevcmd_path_check(t)
    \/ vcvars_environment_spawn(t)
    \/ vcvars_environment_stdin(t)
    \/ vcvars_environment_wait(t)

SpecCli == InitCli /\ [][NextCli]_vars

\* ---------------------------------------------------------------- progress
\* The operations that take a lock.
LockOps == EnvOps \cup DownloadOps

\* A step of thread t inside a call: the thread is scheduled, the lock it
\* waits for is handed over, or the external step it waits for (fetch,
\* locator tool, cmd subprocess) ends.
ThreadStep(t) ==
  \/ environment_lock(t)
  \/ environment_get(t)
  \/ environment_insert(t)
  \/ download_vswhere_lock(t)
  \/ download_vswhere_mkdir(t)
  \/ download_vswhere_exists(t)
  \/ download_vswhere_get(t)
  \/ download_vswhere_create(t)
  \/ download_vswhere_copy(t)
  \/ find_visual_studio_run(t)
  \/ vsdevcmd_path_check(t)
  \/ vcvars_environment_spawn(t)
  \/ vcvars_environment_stdin(t)
  \/ vcvars_environment_wait(t)

\* Locking does not depend on the architecture or on what the installation
\* holds: two architectures, and a host with a full installation or none.
LiveArchs == { "X64", "Arm64", NoArch }
LiveHosts ==
  { Host(<< >>, FALSE, FALSE, {}), Host(InstallRoot, TRUE, TRUE, MsvcArch) }

InitLive == Init /\ host \in LiveHosts

NextLive ==
  \E t \in Threads :
    \/ (Call(t, LockOps) /\ arch'[t] \in LiveArchs)
    \/ Return(t)
    \/ ThreadStep(t)

\* Every thread inside a call keeps running, and every external step ends.
SpecLive ==
  InitLive /\ [][NextLive]_vars /\ \A t \in Threads : WF_vars(ThreadStep(t))

\* ---------------------------------------------------------------- two processes
\* A second process runs download_vswhere (lib.rs 119-143) on the same cache
\* directory.  VSWHERE_LOCK is a static of each process, so the peer's steps
\* are held back by nothing in this process.  Its thread of control is at
\* "idle" before the call and at "ok" or "err" after it.
PeerFrame == << shared, locals, history, command, argv, exit_code, output, parsed >>

peer_mkdir ==
  /\ peer = "idle"
  /\ \E ok \in (IF file = "nodir" THEN BOOLEAN ELSE { TRUE }) :
       /\ peer' = IF ok THEN "download_vswhere_exists" ELSE "err"
       /\ file' = IF ok /\ file = "nodir" THEN "absent" ELSE file
  /\ UNCHANGED << host, cacheLock, vswhereLock, cache, cacheSeen, locals, history,
                  command, argv, exit_code, output, parsed >>

peer_exists ==
  /\ peer = "download_vswhere_exists"
  /\ peer' = IF Exists(file) THEN "ok" ELSE "download_vswhere_get"
  /\ UNCHANGED PeerFrame

peer_get ==
  /\ peer = "download_vswhere_get"
  /\ \E ok \in BOOLEAN : peer' = IF ok THEN "download_vswhere_create" ELSE "err"
  /\ UNCHANGED PeerFrame

\* File::create truncates a file that is already there.
peer_create ==
  /\ peer = "download_vswhere_create"
  /\ \E ok \in BOOLEAN :
       /\ peer' = IF ok THEN "download_vswhere_copy" ELSE "err"
       /\ file' = IF ok THEN "partial" ELSE file
  /\ UNCHANGED << host, cacheLock, vswhereLock, cache, cacheSeen, locals, history,
                  command, argv, exit_code, output, parsed >>

peer_copy ==
  /\ peer = "download_vswhere_copy"
  /\ \E ok \in BOOLEAN :
       /\ peer' = IF ok THEN "ok" ELSE "err"
       /\ file' = IF ok THEN "complete" ELSE file
  /\ UNCHANGED << host, cacheLock, vswhereLock, cache, cacheSeen, locals, history,
                  command, argv, exit_code, output, parsed >>

\* The threads of this process and the peer, all calling download_vswhere.
NextProcesses ==
  \/ \E t \in Threads :
       \/ Call(t, DownloadOps)
       \/ Return(t)
       \/ download_vswhere_lock(t)
       \/ download_vswhere_mkdir(t)
       \/ download_vswhere_exists(t)
       \/ download_vswhere_get(t)
       \/ download_vswhere_create(t)
       \/ download_vswhere_copy(t)
  \/ peer_mkdir
  \/ peer_exists
  \/ peer_get
  \/ peer_create
  \/ peer_copy

SpecProcesses == Init /\ [][NextProcesses]_vars


\* ================================================================ claims
EnvDone(t) == pc[t] = "done" /\ op[t] = "environment"
\* Thread t returns from environment in this step.
EnvReturns(t) == op[t] = "environment" /\ pc[t] # "done" /\ pc'[t] = "done"

\* C1: for every architecture for which environment calls have returned
\* snapshots and no spawned extraction ended in an error, exactly one
\* extraction subprocess was spawned in total and all those calls returned
\* the same snapshot, however the calls of the threads overlapped.
C1_OneExtraction ==
  \A a \in MsvcArch :
    (returned[a] # {} /\ a \notin failedRuns) =>
      (spawned[a] = 1 /\ Cardinality(returned[a]) = 1)

\* Two overlapping calls for one architecture have both returned a snapshot.
C1_Witness ==
  \E t \in Threads : \E u \in Threads \ { t } :
    /\ EnvDone(t) /\ EnvDone(u) /\ arch[t] = arch[u]
    /\ result[t].kind = "Ok" /\ result[u].kind = "Ok"
    /\ overlap[u]
    /\ spawned[arch[t]] = 1

\* C2: an environment(A) call that returns a snapshot after an earlier call
\* already returned one for A returns the identical snapshot (same pairs in
\* the same order) and spawns no extraction subprocess, and at most one
\* extraction for A ever succeeds.
C2_SecondCallIdentical ==
  [][\A t \in Threads :
       (EnvReturns(t) /\ result'[t].kind = "Ok" /\ returned[arch[t]] # {}) =>
         /\ returned[arch[t]] = { result'[t].val }
         /\ "cmd" \notin did'[t]]_vars

\* A thread called environment(A) with no other call for A in flight and was
\* served from the cache.
C2_Witness ==
  \E t \in Threads :
    /\ EnvDone(t) /\ result[t].kind = "Ok"
    /\ ~overlap[t] /\ did[t] = {}
    /\ spawned[arch[t]] = 1

\* C3: an environment(A) call that returns an error leaves the cache as it
\* was when the call took the cache lock, with no entry for A, and frees the
\* lock; a call that finds no entry for A performs the whole sequence again
\* (helper check, locator, script check, subprocess) before it returns a
\* snapshot.
C3_FailureNotCached ==
  [][\A t \in Threads :
       /\ (EnvReturns(t) /\ result'[t].kind = "Err") =>
            /\ cache' = cacheSeen
            /\ cache'[arch[t]] = << >>
            /\ cacheLock' = NoThread
       /\ (EnvReturns(t) /\ result'[t].kind = "Ok" /\ cacheSeen[arch[t]] = << >>) =>
            { "exists", "locator", "locator_ok", "fs", "cmd" } \subseteq did'[t]]_vars

\* After a failed extraction for A, a later call for A extracted and returned
\* a snapshot.
C3_Witness ==
  \E t \in Threads :
    /\ EnvDone(t) /\ result[t].kind = "Ok"
    /\ arch[t] \in failedRuns
    /\ "cmd" \in did[t]
    /\ cache[arch[t]] # << >>

\* C4: while an extraction subprocess of some thread is running or its result
\* is not yet stored, that thread holds the cache lock and every other thread
\* inside environment(), for whatever architecture, is still waiting for the
\* lock; so no two extractions run at the same time.
ExtractionSteps ==
  { "vcvars_environment_stdin", "vcvars_environment_wait", "environment_insert" }

C4_ExtractionSerialized ==
  \A t \in Threads :
    pc[t] \in ExtractionSteps =>
      /\ cacheLock = t
      /\ \A u \in Threads \ { t } :
           op[u] = "environment" => pc[u] \in { "idle", "done", "environment_lock" }

\* One thread's subprocess runs while another waits for the lock with a
\* different architecture.
C4_Witness ==
  \E t \in Threads : \E u \in Threads \ { t } :
    /\ pc[t] = "vcvars_environment_wait"
    /\ pc[u] = "environment_lock"
    /\ arch[u] # arch[t]

\* C5 as stated: no thread holds the download lock and the cache lock at the
\* same time (neither is acquired while the other is held).
C5_NoNestedLocks ==
  \A t \in Threads : ~(cacheLock = t /\ vswhereLock = t)

\* C5 amended: the locks nest in one order only.  A thread may take the
\* download lock while it holds the cache lock; no thread takes the cache lock
\* while it holds the download lock.
C5_LockOrder ==
  [][\A t \in Threads :
       (cacheLock # t /\ cacheLock' = t) => vswhereLock # t]_vars

\* A thread inside download_vswhere holds both locks.
C5_Witness ==
  \E t \in Threads :
    /\ cacheLock = t /\ vswhereLock = t
    /\ pc[t] = "download_vswhere_exists"

\* C6: a stored cache entry is never changed or removed, and every hit
\* returns the stored value, whatever callers did to the snapshots they hold.
C6_CacheEntryStable ==
  [][/\ \A a \in MsvcArch : cache[a] # << >> => cache'[a] = cache[a]
     /\ \A t \in Threads :
          (EnvReturns(t) /\ result'[t].kind = "Ok" /\ cacheSeen[arch[t]] # << >>) =>
            << result'[t].val >> = cache[arch[t]]]_vars

\* One caller changed its snapshot; a later call still got the stored one.
C6_Witness ==
  \E t \in Threads : \E u \in Threads \ { t } :
    /\ EnvDone(t) /\ EnvDone(u) /\ arch[t] = arch[u]
    /\ result[t].kind = "Ok" /\ result[u].kind = "Ok"
    /\ cache[arch[t]] # << >>
    /\ << result[t].val >> # cache[arch[t]]
    /\ << result[u].val >> = cache[arch[u]]
    /\ did[u] = {}

\* C7 as stated, for environment: a call that found the installation root on
\* a host without A's setup script, and met no subprocess or I/O failure,
\* returns ArchNotSupported carrying A and the script's file name.
C7_EnvironmentArchNotSupported ==
  \A t \in Threads :
    (/\ EnvDone(t)
     /\ vs_path[t] # << >>
     /\ arch[t] \notin host.bats
     /\ result[t].err \notin { "VcvarsError", "IoError" }) =>
      /\ result[t].err = "ArchNotSupported"
      /\ result[t].arch = arch[t]
      /\ result[t].file = bat_filename(arch[t])

\* C8 as stated: an operation returns NoVisualStudio only when the locator
\* ran successfully and printed nothing but whitespace.
AllWhitespace(s) == \A i \in 1..Len(s) : s[i] \in Whitespace

C8_NoVisualStudioOnlyWhenEmpty ==
  \A t \in Threads :
    (pc[t] = "done" /\ result[t].err = "NoVisualStudio") =>
      ("locator_ok" \in did[t] /\ AllWhitespace(host.locatorOut))

\* C9: a call that ran the locator tool returns VswhereError when
\* the tool could not be started or exited non-zero, NoVisualStudio when it
\* exited successfully printing only whitespace, and for find_visual_studio
\* the printed path without its surrounding whitespace otherwise; so
\* environment(A) that gets to run the tool on a host with no installation
\* returns NoVisualStudio for every A.
IsTrimOf(p, s) ==
  /\ p # << >>
  /\ p[1] \notin Whitespace /\ p[Len(p)] \notin Whitespace
  /\ \E i \in 1..Len(s) :
       /\ i + Len(p) - 1 <= Len(s)
       /\ p = SubSeq(s, i, i + Len(p) - 1)
       /\ AllWhitespace(SubSeq(s, 1, i - 1))
       /\ AllWhitespace(SubSeq(s, i + Len(p), Len(s)))

C9_LocatorClassification ==
  \A t \in Threads :
    (pc[t] = "done" /\ "locator" \in did[t]) =>
      /\ "locator_ok" \notin did[t] =>
           (result[t].kind = "Err" /\ result[t].err = "VswhereError")
      /\ ("locator_ok" \in did[t] /\ AllWhitespace(host.locatorOut)) =>
           (result[t].kind = "Err" /\ result[t].err = "NoVisualStudio")
      /\ ("locator_ok" \in did[t] /\ ~AllWhitespace(host.locatorOut)
            /\ op[t] = "find_visual_studio") =>
           (result[t].kind = "Ok" /\ IsTrimOf(result[t].val, host.locatorOut))

\* The helper was fetched, ran successfully, printed a blank line, and
\* environment(Arm64) returned NoVisualStudio.
C9_Witness ==
  \E t \in Threads :
    /\ EnvDone(t) /\ arch[t] = "Arm64"
    /\ { "network", "locator_ok" } \subseteq did[t]
    /\ host.locatorOut # << >>
    /\ result[t].err = "NoVisualStudio"

\* C10: every step of a download_vswhere call taken while vswhere.exe exists
\* leaves the file as it is and makes no fetch, and the call returns Ok.
DownloadEntrySteps ==
  { "download_vswhere_lock", "download_vswhere_mkdir", "download_vswhere_exists" }

C10_ExistingFileNoDownload ==
  [][\A t \in Threads :
       (/\ op[t] = "download_vswhere"
        /\ pc[t] \in DownloadEntrySteps /\ pc'[t] # pc[t]
        /\ file \in { "partial", "complete" }) =>
         /\ file' = file
         /\ "network" \notin did'[t]
         /\ pc'[t] \in DownloadEntrySteps \cup { "done" }
         /\ pc'[t] = "done" => result'[t].kind = "Ok"]_vars

\* A call found the file in place and returned Ok having only looked for it.
C10_Witness ==
  \E t \in Threads :
    /\ pc[t] = "done" /\ op[t] = "download_vswhere"
    /\ result[t].kind = "Ok"
    /\ did[t] = { "exists" }
    /\ file = "complete"

\* C11: while a thread is anywhere between taking the download lock and
\* leaving download_vswhere it holds the lock and no other thread is in that
\* section; a fetch is made and the file created only while the file does not
\* exist, so at most one download stores it; a caller whose existence check
\* finds the file leaves it alone, fetches nothing and returns Ok.
DownloadSteps ==
  { "download_vswhere_mkdir", "download_vswhere_exists", "download_vswhere_get",
    "download_vswhere_create", "download_vswhere_copy" }

C11_DownloadExclusive ==
  [][\A t \in Threads :
       /\ pc'[t] \in DownloadSteps =>
            /\ vswhereLock' = t
            /\ \A u \in Threads \ { t } : pc'[u] \notin DownloadSteps
       /\ (pc[t] \in { "download_vswhere_get", "download_vswhere_create" }
             /\ pc'[t] # pc[t]) => ~Exists(file)
       /\ (op[t] = "download_vswhere" /\ pc[t] = "download_vswhere_exists"
             /\ pc'[t] # pc[t] /\ Exists(file)) =>
            /\ file' = file
            /\ "network" \notin did'[t]
            /\ pc'[t] = "done" /\ result'[t].kind = "Ok"]_vars

\* Two threads called with the file absent: one has fetched and is writing
\* the file, the other waits for the lock.
C11_Witness ==
  \E t \in Threads : \E u \in Threads \ { t } :
    /\ op[t] = "download_vswhere" /\ op[u] = "download_vswhere"
    /\ pc[t] = "download_vswhere_copy" /\ "network" \in did[t]
    /\ file = "partial"
    /\ pc[u] = "download_vswhere_lock"

\* C12 as stated: when a download_vswhere call returns an error, no file,
\* partial or complete, exists at the destination path.
C12_FailureLeavesNoFile ==
  [][\A t \in Threads :
       (op[t] = "download_vswhere" /\ pc[t] # "done" /\ pc'[t] = "done"
          /\ result'[t].kind = "Err") => ~Exists(file')]_vars

\* The lines of the captured output and their parts around the first "=".
DumpLines == Lines(output)
HasEq(l) == \E i \in 1..Len(l) : l[i] = "="
FirstEq(l) == CHOOSE i \in 1..Len(l) : l[i] = "=" /\ \A j \in 1..(i - 1) : l[j] # "="
KeyOf(l) == SubSeq(l, 1, FirstEq(l) - 1)
ValueOf(l) == SubSeq(l, FirstEq(l) + 1, Len(l))
\* Line i is the first / the last line of the dump with its name.
FirstOfName(ls, i) == \A j \in 1..(i - 1) : HasEq(ls[j]) => KeyOf(ls[j]) # KeyOf(ls[i])
LastOfName(ls, i) ==
  \A j \in (i + 1)..Len(ls) : HasEq(ls[j]) => KeyOf(ls[j]) # KeyOf(ls[i])

\* C13 as stated: a dump of NAME=VALUE lines only, with pairwise distinct
\* names, parses to exactly those pairs, one per line, in the order of the
\* lines.
C13_WellFormedDumpParsesExactly ==
  LET ls == DumpLines IN
    (/\ parsed.done
     /\ \A i \in 1..Len(ls) : HasEq(ls[i])
     /\ \A i, j \in 1..Len(ls) : KeyOf(ls[i]) = KeyOf(ls[j]) => i = j) =>
      /\ Len(parsed.vars) = Len(ls)
      /\ \A i \in 1..Len(ls) : parsed.vars[i] = << KeyOf(ls[i]), ValueOf(ls[i]) >>

\* C14 as stated: the keys of a snapshot are pairwise distinct; every name of
\* the dump has an entry, whose value is that of the last line with the name,
\* and the entries stand in the order of the first lines of their names.
C14_DuplicatesLastWinsInPlace ==
  LET ls == DumpLines
      m == parsed.vars IN
    parsed.done =>
      /\ \A i, j \in 1..Len(m) : m[i][1] = m[j][1] => i = j
      /\ \A i \in 1..Len(ls) :
           (HasEq(ls[i]) /\ LastOfName(ls, i)) =>
             \E e \in 1..Len(m) : m[e] = << KeyOf(ls[i]), ValueOf(ls[i]) >>
      /\ \A i, j \in 1..Len(ls) :
           (/\ HasEq(ls[i]) /\ HasEq(ls[j]) /\ i < j
            /\ FirstOfName(ls, i) /\ FirstOfName(ls, j)) =>
             \E e, f \in 1..Len(m) :
               e < f /\ m[e][1] = KeyOf(ls[i]) /\ m[f][1] = KeyOf(ls[j])

\* C15 as stated: every line holding "=" gives an entry whose key is the text
\* before its first "=" (and whose value, unless a later line has the same
\* name, is all the text after it); whatever lines without "=" stand before
\* it; lines without "=" give no entry.
C15_SplitOnFirstEquals ==
  LET ls == DumpLines
      m == parsed.vars IN
    parsed.done =>
      /\ \A i \in 1..Len(ls) :
           HasEq(ls[i]) =>
             \E e \in 1..Len(m) :
               /\ m[e][1] = KeyOf(ls[i])
               /\ LastOfName(ls, i) => m[e][2] = ValueOf(ls[i])
      /\ \A e \in 1..Len(m) :
           /\ ~HasEq(m[e][1])
           /\ \E i \in 1..Len(ls) : ls[i] = m[e][1] \o << "=" >> \o m[e][2]

\* C16: when msvc_env returns Ok, every pair of the snapshot is in the
\* environment a child of the command starts with, and every variable of
\* that environment the snapshot does not name, inherited or set before,
\* keeps its value; when environment(arch) returned an error, msvc_env
\* returns that error and the command is unchanged.
MsvcEnvReturns(t) == pc[t] = "done" /\ op[t] = "environment" /\ op'[t] = "msvc_env"

C16_AdditiveOverlay ==
  [][\A t \in Threads :
       MsvcEnvReturns(t) =>
         IF result[t].kind = "Ok"
           THEN LET snap == result[t].val IN
                  /\ result'[t].kind = "Ok"
                  /\ \A i \in 1..Len(snap) :
                       << snap[i][1], snap[i][2] >> \in ChildEnv(command')
                  /\ \A p \in ChildEnv(command) :
                       (\A i \in 1..Len(snap) : snap[i][1] # p[1]) =>
                         p \in ChildEnv(command')
                  /\ \A p \in ChildEnv(command') :
                       \/ p \in ChildEnv(command)
                       \/ \E i \in 1..Len(snap) : p = << snap[i][1], snap[i][2] >>
           ELSE /\ result'[t] = result[t]
                /\ command' = command]_vars

\* msvc_env returned Ok on a command that had U and P set: the child gets the
\* snapshot's P, the caller's U and the inherited H.
C16_Witness ==
  /\ pc[MainThread] = "done" /\ op[MainThread] = "msvc_env"
  /\ result[MainThread].kind = "Ok"
  /\ << << "P" >>, << "a" >> >> \in ChildEnv(command)
  /\ << << "I" >>, << "b" >> >> \in ChildEnv(command)
  /\ << << "U" >>, << "u" >> >> \in ChildEnv(command)
  /\ << << "H" >>, << "h" >> >> \in ChildEnv(command)

\* The architecture the claim assigns to an argument, whatever its case;
\* NoArch for every other token.
ClaimedArch(tok) ==
  CASE tok \in { << "x", "6", "4" >>, << "X", "6", "4" >> } -> "X64"
    [] tok \in { << "x", "8", "6" >>, << "X", "8", "6" >> } -> "X86"
    [] tok \in { << "a", "r", "m" >>, << "A", "r", "m" >> } -> "Arm"
    [] tok \in { << "a", "r", "m", "6", "4" >>, << "A", "R", "M", "6", "4" >> } -> "Arm64"
    [] tok \in { << "a", "l", "l" >>, << "a", "L", "L" >> } -> "All"
    [] OTHER -> NoArch

\* C17: with an architecture argument that spells one of the five names in
\* any case, the program never ends with the usage status and calls
\* environment with that architecture; with any other argument it makes no
\* call, takes no step of discovery, download or extraction, and can only
\* end with the usage status.
C17_CliArchMapping ==
  LET a == ArchArg(argv) IN
    Len(a) > 0 =>
      IF ClaimedArch(a[1]) # NoArch
        THEN /\ exit_code # UsageExit
             /\ ncalls > 0 =>
                  (op[MainThread] = "environment" /\ arch[MainThread] = ClaimedArch(a[1]))
        ELSE /\ exit_code \in { NoExit, UsageExit }
             /\ ncalls = 0
             /\ pc[MainThread] = "idle"
             /\ did[MainThread] = {}
             /\ file \in { "nodir", "complete" }
             /\ \A x \in MsvcArch : spawned[x] = 0

\* An argument that names no architecture ended the program with status 1.
C17_Witness ==
  /\ exit_code = UsageExit
  /\ ArchArg(argv) = << << "a", "m", "d", "6", "4" >> >>
  /\ ncalls = 0

\* The captured output shows that the setup script failed.
SetupFailed(stdout) ==
  LET ls == Lines(stdout) IN \E i \in 1..Len(ls) : ls[i] = SetupErrorLine

\* The snapshots parsed from such outputs.
FailedSetupSnapshots == { ParseOutput(d) : d \in { x \in Dumps : SetupFailed(x) } }

\* C18 as stated: no snapshot taken from the output of a run whose setup
\* script failed is stored in the cache or returned.
C18_NoSnapshotAfterFailedSetup ==
  \A a \in MsvcArch :
    \A snap \in FailedSetupSnapshots :
      /\ cache[a] # << snap >>
      /\ snap \notin returned[a]

\* C19 as stated: an environment call whose subprocess exited with a
\* non-success status returns VcvarsError carrying what the subprocess wrote
\* to stderr, has parsed nothing and leaves the cache as it found it.
C19_NonSuccessCarriesStderr ==
  [][\A t \in Threads :
       (EnvReturns(t) /\ "exit_nonzero" \in did'[t]) =>
         /\ result'[t] = Err("VcvarsError", Stderr)
         /\ new_env'[t] = << >>
         /\ cache' = cacheSeen]_vars

\* C20 as stated: no empty snapshot is stored in the cache or returned.
C20_EmptySnapshotRejected ==
  \A a \in MsvcArch :
    /\ cache[a] # << << >> >>
    /\ << >> \notin returned[a]

\* C21: an environment(A) call that returns after some call already returned
\* a snapshot for A has taken no external step at all (no existence check or
\* fetch of the helper, no locator run, no look at the installation's files,
\* no subprocess) and returns Ok.
C21_LaterCallsPureRead ==
  [][\A t \in Threads :
       (EnvReturns(t) /\ returned[arch[t]] # {}) =>
         /\ did'[t] = {}
         /\ result'[t].kind = "Ok"
         /\ file' = file
         /\ spawned' = spawned]_vars

\* One thread extracted the snapshot for A and returned it; another thread's
\* later call for A returned it having done nothing else.
C21_Witness ==
  \E t \in Threads : \E u \in Threads \ { t } :
    /\ EnvDone(t) /\ EnvDone(u) /\ arch[t] = arch[u]
    /\ result[t].kind = "Ok" /\ "cmd" \in did[t]
    /\ result[u].kind = "Ok" /\ did[u] = {}
    /\ result[u].val # << >>

\* C22: a thread takes the cache lock only while it holds no lock and the
\* download lock only while it does not hold it, so the only nesting is cache
\* then download; a thread running the locator tool does not hold the
\* download lock; a thread outside a call holds no lock, whatever the call
\* returned; and every call a thread has begun returns.
InCall(t) == pc[t] \notin { "idle", "done" }

C22_LocksReleasedCallsReturn ==
  /\ [](\A t \in Threads :
          /\ pc[t] = "find_visual_studio_run" => vswhereLock # t
          /\ ~InCall(t) => (cacheLock # t /\ vswhereLock # t))
  /\ [][\A t \in Threads :
          (cacheLock # t /\ cacheLock' = t) => (vswhereLock # t /\ vswhereLock' # t)]_vars
  /\ \A t \in Threads : InCall(t) ~> pc[t] = "done"

\* A call that held both locks returned an error, and the thread that was
\* waiting for the cache lock meanwhile now holds it.
C22_Witness ==
  \E t \in Threads : \E u \in Threads \ { t } :
    /\ EnvDone(t) /\ result[t].kind = "Err" /\ "exists" \in did[t]
    /\ overlap[u]
    /\ cacheLock = u /\ pc[u] = "environment_get"

\* C23 as stated: whenever download_vswhere returns Ok, in a thread of this
\* process or in the peer process, the file at the cache path is completely
\* written.
C23_SuccessMeansCompleteFile ==
  [][/\ \A t \in Threads :
          (op[t] = "download_vswhere" /\ pc[t] # "done" /\ pc'[t] = "done"
             /\ result'[t].kind = "Ok") => file' = "complete"
     /\ (peer # "ok" /\ peer' = "ok") => file' = "complete"]_vars

====
